---- MODULE Spec2Model ----
(***************************************************************************)
(* claude-review-agent.py: one invocation after another of the review     *)
(* tool against one git repository.  The repository (branches with their  *)
(* tips, registered worktrees, directory tree) persists between the       *)
(* invocations; the steps of main() are the actions.                      *)
(*                                                                         *)
(* Names are sequences of path components: the branch "feat/x" is         *)
(* <<"feat", "x">>, the directory /tmp/r/feat is <<"tmp", "r", "feat">>.   *)
(* The external tools (git, claude) are modelled by what they do to the   *)
(* repository, with their failures as nondeterministic faults.            *)
(***************************************************************************)
EXTENDS Integers, Sequences, FiniteSets, TLC

VARIABLES
    refs,          \* git branches: branch name -> tip commit
    worktrees,     \* paths of the worktrees registered in the repository
    fs,            \* paths (directories and files) existing on disk
    pc,            \* position of the running invocation in main()
    args,          \* parsed command line of the running invocation
    orig_branch,   \* main(): orig_branch
    worktree_dir,  \* main(): worktree_dir (None until create returns)
    branch,        \* main(): branch (None until create returns)
    ret,           \* value main() returns (NoRet while undecided)
    exc,           \* exception propagating out of main()
    log,           \* run_command calls of the running invocation, in order
    steps,         \* how each step of the running invocation ended
    warned,        \* cleanup printed "Warning during cleanup"
    cleanup_fault, \* the removal failures the cleanup of this invocation met
    pre,           \* repository and disk as they were when the invocation began
    runs,          \* invocations started so far
    agent_content, \* the AGENT_CONTENT constant of the script
    printed,       \* the command a dry run printed (None: nothing)
    requested      \* the path handed to git worktree add (None: none yet)

vars == <<refs, worktrees, fs, pc, args, orig_branch, worktree_dir, branch,
          ret, exc, log, steps, warned, cleanup_fault, pre, runs,
          agent_content, printed, requested>>

(***************************************************************************)
(* Bounds                                                                  *)
(***************************************************************************)
MaxRuns == 2

\* Lines of an agent template.
MaxTemplateLines == 3

(***************************************************************************)
(* Program constants and inputs                                            *)
(***************************************************************************)
BRANCH_PREFIX == "claude-review-agent"

\* Python's None for worktree_dir and branch; falsy like None in
\* "if worktree_dir and branch".
None == <<>>

\* main()'s return value while no return statement has run.
NoRet == -1

\* Path(args.repo_path).resolve() of the repository under review.
RepoDir == <<"tmp", "r">>

\* str(uuid.uuid4()).split("-")[0]: eight hexadecimal digits.  The values
\* tried, in ascending order.
RandTable == <<"0a1b2c3d", "9c0d1e2f">>

Rands == {RandTable[i] : i \in 1..Len(RandTable)}

\* datetime.now().strftime("%Y-%m-%d")
Dates == {"2026-11-04"}

\* The branches the repository starts with, and their tips.
BaseRefs == (<<"main">> :> 1) @@ (<<"feat", "x">> :> 2)

\* The branch HEAD points to in the repository's main checkout.
HeadBranch == <<"main">>

\* The branch arguments tried: the default (HEAD, here the branch main), a
\* branch with '/' in its name, a commit expression that names no branch,
\* and a ref that does not exist.
RefArgs == {<<"HEAD">>, <<"feat", "x">>, <<"HEAD~0">>, <<"nosuch">>}

\* The tip the agent's fixup commit gives a branch whose tip was t.
FixupOn(t) == t + 10

(***************************************************************************)
(* pathlib                                                                 *)
(***************************************************************************)
Parent(p) == SubSeq(p, 1, Len(p) - 1)

IsRelativeTo(p, q) == Len(q) <= Len(p) /\ SubSeq(p, 1, Len(q)) = q

Prefixes(p) == {SubSeq(p, 1, n) : n \in 1..Len(p)}

\* any(current.iterdir())
HasEntries(files, p) == \E q \in files : q # p /\ IsRelativeTo(q, p)

\* What is left of the disk when the tree rooted at p is removed.
WithoutTree(files, p) == {q \in files : ~IsRelativeTo(q, p)}

State == [refs |-> refs, worktrees |-> worktrees, fs |-> fs]

(***************************************************************************)
(* git, as the program uses it (run from cwd = repo_dir)                   *)
(***************************************************************************)
\* A branch name that leaves out the random suffix.
MutNameWithoutRand(orig, date, rand) ==
    <<BRANCH_PREFIX>> \o Parent(orig) \o <<orig[Len(orig)] \o "-" \o date>>

\* f"{BRANCH_PREFIX}/{orig_branch}-{date}-{rand}", split into components.
ReviewBranchName(orig, date, rand) ==
    <<BRANCH_PREFIX>> \o Parent(orig)
        \o <<orig[Len(orig)] \o "-" \o date \o "-" \o rand>>

\* A listing pattern that matches every branch.
MutMatchesAll(b) == Len(b) >= 1

\* The pattern f"{BRANCH_PREFIX}/*" of git branch --list ('*' spans '/').
MatchesPrefix(b) == Len(b) >= 2 /\ b[1] = BRANCH_PREFIX

\* Every branch name of the model in git's listing order (by refname).
SortedOrigs == << <<"feat", "x">>, <<"main">> >>

DateToday == CHOOSE d \in Dates : TRUE

RefnameOrder ==
    [k \in 1..(Len(SortedOrigs) * Len(RandTable)) |->
        ReviewBranchName(SortedOrigs[((k - 1) \div Len(RandTable)) + 1],
                         DateToday, RandTable[((k - 1) % Len(RandTable)) + 1])]
    \o SortedOrigs

\* git rev-parse --abbrev-ref --verify <ref>: exit status and stdout.
GitRevParseAbbrevRef(st, ref) ==
    IF ref = <<"HEAD">> THEN [ok |-> TRUE, stdout |-> HeadBranch]
    ELSE IF ref \in DOMAIN st.refs THEN [ok |-> TRUE, stdout |-> ref]
    ELSE IF ref = <<"HEAD~0">> THEN [ok |-> TRUE, stdout |-> <<"">>]
    ELSE [ok |-> FALSE, stdout |-> <<"">>]

\* git branch --format=%(refname:short) --list <prefix>/*: the lines of stdout.
GitBranchList(st) ==
    SelectSeq(RefnameOrder, LAMBDA b : b \in DOMAIN st.refs /\ MatchesPrefix(b))

\* git branch -D <b>: refused for a branch checked out in a worktree.
GitBranchDelete(st, repo_dir, b) ==
    IF b \in DOMAIN st.refs /\ b # HeadBranch /\ (repo_dir \o b) \notin st.worktrees
    THEN [ok |-> TRUE,
          st |-> [st EXCEPT !.refs = [x \in DOMAIN st.refs \ {b} |-> st.refs[x]]]]
    ELSE [ok |-> FALSE, st |-> st]

\* git worktree add --quiet -b <b> <path> <start>.  The branch is created
\* first, the path is checked next, the checkout comes last; fault is what
\* happens to the checkout: "none", "fail" (git exits non-zero and removes
\* what it began), "killed" (git exits non-zero leaving what it began, as
\* when it dies or its post-checkout hook fails) or "interrupt" (Ctrl-C
\* reaches git and the script, leaving what git began).
GitWorktreeAdd(st, b, path, start, fault) ==
    IF start \notin DOMAIN st.refs \/ b \in DOMAIN st.refs
    THEN [ok |-> FALSE, interrupted |-> FALSE, st |-> st]
    ELSE LET st1 == [st EXCEPT !.refs = (b :> st.refs[start]) @@ st.refs]
         IN  IF path \in st.fs /\ HasEntries(st.fs, path)
             THEN [ok |-> FALSE, interrupted |-> FALSE, st |-> st1]
             ELSE IF fault = "fail"
             THEN [ok |-> FALSE, interrupted |-> FALSE, st |-> st1]
             ELSE IF fault \in {"killed", "interrupt"}
             THEN [ok |-> FALSE, interrupted |-> fault = "interrupt",
                   st |-> [st1 EXCEPT !.worktrees = @ \cup {path},
                                      !.fs = @ \cup Prefixes(path)]]
             ELSE [ok |-> TRUE, interrupted |-> FALSE,
                   st |-> [st1 EXCEPT !.worktrees = @ \cup {path},
                                      !.fs = @ \cup Prefixes(path)
                                               \cup {path \o <<".git">>}]]

\* git worktree remove --force <name>, name taken relative to cwd.  Exits
\* non-zero when name is no registered worktree, or when fault = "nonzero".
GitWorktreeRemove(st, repo_dir, name, fault) ==
    LET path == repo_dir \o name
    IN  IF path \in st.worktrees /\ fault = "none"
        THEN [ok |-> TRUE,
              st |-> [st EXCEPT !.worktrees = @ \ {path},
                                !.fs = WithoutTree(@, path)]]
        ELSE [ok |-> FALSE, st |-> st]

(***************************************************************************)
(* The functions of the program                                            *)
(***************************************************************************)
\* A get_branch that runs git rev-parse in non-strict mode.
MutGetBranchNeverRaises(st, ref) ==
    [raised |-> FALSE, value |-> GitRevParseAbbrevRef(st, ref).stdout]

\* get_branch: run_command in strict mode raises CalledProcessError on a
\* non-zero exit; otherwise the stripped stdout is the branch name.
get_branch(st, ref) ==
    LET result == GitRevParseAbbrevRef(st, ref)
    IN  [raised |-> ~result.ok, value |-> result.stdout]

\* result.stdout.strip().split("\n"): an empty output is one empty line.
SplitLines(names) == IF names = <<>> THEN <<None>> ELSE names

\* A loop that goes on with the next branch after a failed deletion and
\* raises at its end.
RECURSIVE MutPurgeKeepsGoing(_, _, _, _)
MutPurgeKeepsGoing(st, repo_dir, branches, lg) ==
    IF branches = <<>> THEN [raised |-> FALSE, st |-> st, log |-> lg]
    ELSE IF Head(branches) = None
    THEN MutPurgeKeepsGoing(st, repo_dir, Tail(branches), lg)
    ELSE LET r == GitBranchDelete(st, repo_dir, Head(branches))
             rest == MutPurgeKeepsGoing(r.st, repo_dir, Tail(branches),
                                        Append(lg, "git branch -D"))
         IN  [raised |-> ~r.ok \/ rest.raised, st |-> rest.st,
              log |-> rest.log]

\* The loop of purge_review_branches over the listed lines: the first
\* git branch -D that exits non-zero raises and ends the loop.
RECURSIVE PurgeLoop(_, _, _, _)
PurgeLoop(st, repo_dir, branches, lg) ==
    IF branches = <<>> THEN [raised |-> FALSE, st |-> st, log |-> lg]
    ELSE IF Head(branches) = None
    THEN PurgeLoop(st, repo_dir, Tail(branches), lg)
    ELSE LET r == GitBranchDelete(st, repo_dir, Head(branches))
             lg1 == Append(lg, "git branch -D")
         IN  IF r.ok THEN PurgeLoop(r.st, repo_dir, Tail(branches), lg1)
             ELSE [raised |-> TRUE, st |-> r.st, log |-> lg1]

purge_review_branches(st, repo_dir) ==
    PurgeLoop(st, repo_dir, SplitLines(GitBranchList(st)),
              <<"git branch --list">>)

\* How the checkout of git worktree add can end.
CreateFaults == {"none", "fail", "killed", "interrupt"}

\* create_review_branch: worktree_dir and branch are returned only when
\* git worktree add succeeded; otherwise the exception leaves the function.
create_review_branch(st, repo_dir, orig, rand, date, fault) ==
    LET b == ReviewBranchName(orig, date, rand)
        dir == repo_dir \o b
        r == GitWorktreeAdd(st, b, dir, orig, fault)
    IN  [raised |-> ~r.ok, interrupted |-> r.interrupted, st |-> r.st,
         worktree_dir |-> dir, branch |-> b]

\* A walk that removes a parent without looking whether it is empty.
RECURSIVE MutWalkIgnoresContents(_, _, _, _, _)
MutWalkIgnoresContents(files, current, repo_dir, k, failAt) ==
    IF current # repo_dir /\ IsRelativeTo(current, repo_dir)
    THEN IF current \in files
         THEN IF k = failAt THEN files
              ELSE MutWalkIgnoresContents(files \ {current}, Parent(current),
                                          repo_dir, k + 1, failAt)
         ELSE files
    ELSE files

\* The walk over the parents of the worktree directory: failAt numbers the
\* rmdir call that raises OSError (0: none does); k counts the calls.
RECURSIVE RemoveEmptyParents(_, _, _, _, _)
RemoveEmptyParents(files, current, repo_dir, k, failAt) ==
    IF current # repo_dir /\ IsRelativeTo(current, repo_dir)
    THEN IF current \in files /\ ~HasEntries(files, current)
         THEN IF k = failAt THEN files
              ELSE RemoveEmptyParents(files \ {current}, Parent(current),
                                      repo_dir, k + 1, failAt)
         ELSE files
    ELSE files

\* A cleanup that leaves the directory to git alone: no rmtree.
MutCleanupWithoutRmtree(st, repo_dir, dir, b, fault) ==
    IF fault.git = "raise" THEN [raised |-> TRUE, st |-> st]
    ELSE LET st1 == GitWorktreeRemove(st, repo_dir, b, fault.git).st
             files3 == RemoveEmptyParents(st1.fs, Parent(dir), repo_dir, 1,
                                          fault.rmdir)
         IN  [raised |-> FALSE, st |-> [st1 EXCEPT !.fs = files3]]

\* The try block of cleanup_review_branch.  fault.git: "none", "nonzero"
\* (git exits non-zero) or "raise" (run_command raises OSError);
\* fault.rmtree: "none" or "left" (rmtree's errors are ignored and the
\* directory stays); fault.rmdir: the rmdir call that raises.
CleanupSteps(st, repo_dir, dir, b, fault) ==
    IF fault.git = "raise" THEN [raised |-> TRUE, st |-> st]
    ELSE LET st1 == GitWorktreeRemove(st, repo_dir, b, fault.git).st
             files2 == IF dir \in st1.fs /\ fault.rmtree = "none"
                       THEN WithoutTree(st1.fs, dir)
                       ELSE st1.fs
             files3 == RemoveEmptyParents(files2, Parent(dir), repo_dir, 1,
                                          fault.rmdir)
         IN  [raised |-> FALSE, st |-> [st1 EXCEPT !.fs = files3]]

\* A cleanup that asks for the removal in strict mode and has no handler.
MutCleanupStrictRemove(st, repo_dir, dir, b, fault) ==
    LET r == CleanupSteps(st, repo_dir, dir, b, fault)
        rm == GitWorktreeRemove(st, repo_dir, b, fault.git)
    IN  IF fault.git # "raise" /\ ~rm.ok
        THEN [raised |-> TRUE, warned |-> FALSE, st |-> st]
        ELSE [raised |-> FALSE, warned |-> r.raised, st |-> r.st]

\* A cleanup whose handler lets the exception through.
MutCleanupPropagates(st, repo_dir, dir, b, fault) ==
    LET r == CleanupSteps(st, repo_dir, dir, b, fault)
    IN  [raised |-> r.raised, warned |-> FALSE, st |-> r.st]

\* A cleanup that also deletes the review branch.
MutCleanupDeletesBranch(st, repo_dir, dir, b, fault) ==
    LET r == CleanupSteps(st, repo_dir, dir, b, fault)
    IN  [raised |-> FALSE, warned |-> r.raised,
         st |-> GitBranchDelete(r.st, repo_dir, b).st]

\* cleanup_review_branch: "except Exception" turns every exception of the
\* steps into a warning; nothing is raised to the caller.
cleanup_review_branch(st, repo_dir, dir, b, fault) ==
    LET r == CleanupSteps(st, repo_dir, dir, b, fault)
    IN  [raised |-> FALSE, warned |-> r.raised, st |-> r.st]

CleanupFaults ==
    [git : {"none", "nonzero", "raise"}, rmtree : {"none", "left"},
     rmdir : {0, 1, 2}]

NoFault == [git |-> "none", rmtree |-> "none", rmdir |-> 0]

\* cleanup_fault while no removal has failed.
NoRemovalFault == [git |-> "none", rmtree |-> "none"]

(***************************************************************************)
(* The agent template.  A line is a sequence of tokens: "-" and " " are    *)
(* single characters, any other token is a "key: value" entry of the       *)
(* frontmatter or a piece of prompt text.                                  *)
(***************************************************************************)
Dashes == <<"-", "-", "-">>

AGENT_CONTENT ==
    << Dashes, <<"name: code-reviewer">>, <<"description: |">>,
       <<"tools: Glob, Grep, Read">>, <<"model: sonnet">>, Dashes,
       <<"You are an elite code reviewer">> >>

\* str.startswith
StartsWith(line, prefix) ==
    Len(line) >= Len(prefix) /\ SubSeq(line, 1, Len(prefix)) = prefix

RECURSIVE LStrip(_)
LStrip(line) ==
    IF line # <<>> /\ Head(line) = " " THEN LStrip(Tail(line)) ELSE line

RECURSIVE RStrip(_)
RStrip(line) ==
    IF line # <<>> /\ line[Len(line)] = " "
    THEN RStrip(SubSeq(line, 1, Len(line) - 1))
    ELSE line

\* line.strip()
StripLine(line) == RStrip(LStrip(line))

RECURSIVE DropBlankFirst(_)
DropBlankFirst(lines) ==
    IF lines # <<>> /\ StripLine(Head(lines)) = <<>>
    THEN DropBlankFirst(Tail(lines))
    ELSE lines

RECURSIVE DropBlankLast(_)
DropBlankLast(lines) ==
    IF lines # <<>> /\ StripLine(lines[Len(lines)]) = <<>>
    THEN DropBlankLast(SubSeq(lines, 1, Len(lines) - 1))
    ELSE lines

\* agent_content.strip().split("\n"): the blank lines at both ends go,
\* the first line loses its leading blanks and the last its trailing ones;
\* an all-blank content is one empty line.
StripSplit(content) ==
    LET kept == DropBlankLast(DropBlankFirst(content))
    IN  IF kept = <<>> THEN << <<>> >>
        ELSE [i \in 1..Len(kept) |->
                 LET l1 == IF i = 1 THEN LStrip(kept[i]) ELSE kept[i]
                 IN  IF i = Len(kept) THEN RStrip(l1) ELSE l1]

\* yaml.safe_load(frontmatter_yaml) followed by frontmatter.get: works on
\* a mapping only.  No entry at all loads as None, and a line that starts
\* with a dash makes the document a list or a scalar: AttributeError.
FrontmatterLoads(frontmatter_lines) ==
    /\ \E i \in DOMAIN frontmatter_lines :
           StripLine(frontmatter_lines[i]) # <<>>
    /\ \A i \in DOMAIN frontmatter_lines :
           LET l == StripLine(frontmatter_lines[i])
           IN  l = <<>> \/ Head(l) # "-"

\* A parser that does not look for the closing delimiter.
MutParseWithoutClosing(content) ==
    LET lines == StripSplit(content)
    IN  IF ~StartsWith(lines[1], Dashes)
        THEN [raised |-> TRUE, frontmatter_end |-> 0]
        ELSE [raised |-> FALSE, frontmatter_end |-> Len(lines)]

\* parse_agent_yaml_to_json: ValueError unless the first line starts with
\* the delimiter and a later line, stripped, is the delimiter; the first
\* such line ends the frontmatter, which must load as a mapping.
parse_agent_yaml_to_json(content) ==
    LET lines == StripSplit(content)
    IN  IF ~StartsWith(lines[1], Dashes)
        THEN [raised |-> TRUE, frontmatter_end |-> 0]
        ELSE IF \A i \in 2..Len(lines) : StripLine(lines[i]) # Dashes
        THEN [raised |-> TRUE, frontmatter_end |-> 0]
        ELSE LET frontmatter_end ==
                     CHOOSE i \in 2..Len(lines) :
                         /\ StripLine(lines[i]) = Dashes
                         /\ \A j \in 2..(i - 1) : StripLine(lines[j]) # Dashes
             IN  [raised |->
                      ~FrontmatterLoads(SubSeq(lines, 2, frontmatter_end - 1)),
                  frontmatter_end |-> frontmatter_end]

\* What the claude process can do: agent.exit is "ok", "nonzero" (exit
\* status not 0), "oserror" (it could not be started) or "interrupt"
\* (KeyboardInterrupt while waiting for it); agent.commits is the number of
\* fixup commits it made on the branch checked out in its directory.
AgentRuns ==
    {a \in [exit : {"ok", "nonzero", "oserror", "interrupt"}, commits : {0, 1}] :
        a.exit = "oserror" => a.commits = 0}

\* PROMPT_TEMPLATE.format(branch=branch): the text around the branch name.
PromptFor(b) ==
    <<"add fixup commits and print the number of new commits on the new branch",
      b>>

\* A review that runs the agent in a dry run too.
MutReviewIgnoresDryRun(content, st, dir, b, dry_run, agent) ==
    [result |-> "ok", spawned |-> TRUE, printed |-> None, st |-> st]

\* run_claude_review: result is "ok" (returned), "error" (an Exception was
\* raised) or "interrupt" (KeyboardInterrupt was raised); printed is the
\* command a dry run prints: the directory and the prompt argument.
run_claude_review(content, st, dir, b, dry_run, agent) ==
    IF parse_agent_yaml_to_json(content).raised
    THEN [result |-> "error", spawned |-> FALSE, printed |-> None, st |-> st]
    ELSE IF dry_run
    THEN [result |-> "ok", spawned |-> FALSE,
          printed |-> <<dir, PromptFor(b)>>, st |-> st]
    ELSE [result |-> CASE agent.exit = "ok" -> "ok"
                       [] agent.exit = "interrupt" -> "interrupt"
                       [] OTHER -> "error",
          spawned |-> TRUE,
          printed |-> None,
          st |-> IF agent.commits = 1 /\ b \in DOMAIN st.refs
                 THEN [st EXCEPT !.refs[b] = FixupOn(@)]
                 ELSE st]

(***************************************************************************)
(* main()                                                                  *)
(***************************************************************************)
NoSteps ==
    [validate |-> "none", resolve |-> "none", purge |-> "none",
     create |-> "none", review |-> "none", cleanup |-> "none"]

ArgSets ==
    [repo_is_dir : BOOLEAN, branch : RefArgs, dry_run : BOOLEAN,
     purge_reviews : BOOLEAN]

\* A main() without the directory check.
MutNoDirCheck(a) == TRUE

\* repo_dir.is_dir()
IsDir(a) == a.repo_is_dir

\* A main() that goes on to the review whatever the flag says.
MutIgnoresPurgeFlag(a) == "create"

\* "if args.purge_reviews:" after the branch was determined.
AfterResolve(a) == IF a.purge_reviews THEN "purge" ELSE "create"

\* The two returns of the purge block.
PurgeReturn(raised) == IF raised THEN 1 ELSE 0

\* An exception handler that reports the error and returns 0.
MutReturnsZero(result) == 0

\* "return 0" at the end of the try block, "return 1" of "except Exception".
TryReturn(result) == IF result = "ok" THEN 0 ELSE 1

\* Cleanup called at the end of the try block instead of in finally.
MutCleanupOnSuccessOnly(dir, b) == dir # None /\ b # None /\ ret = 0 /\ exc = "none"

\* "if worktree_dir and branch:" of the finally block.
CleanupDue(dir, b) == dir # None /\ b # None

\* sys.exit(main()): the exit status of the process.
ExitStatus ==
    IF exc = "KeyboardInterrupt" THEN 130
    ELSE IF exc # "none" THEN 1
    ELSE ret

\* No invocation is running.
ProcessIdle ==
    /\ pc = "idle"
    /\ args = [repo_is_dir |-> TRUE, branch |-> <<"HEAD">>,
               dry_run |-> FALSE, purge_reviews |-> FALSE]
    /\ orig_branch = None
    /\ worktree_dir = None
    /\ branch = None
    /\ ret = NoRet
    /\ exc = "none"
    /\ log = <<>>
    /\ steps = NoSteps
    /\ warned = FALSE
    /\ cleanup_fault = NoRemovalFault
    /\ printed = None
    /\ requested = None

\* A repository with its base branches and no review branch, the script
\* as it is in the source.
Init ==
    /\ refs = BaseRefs
    /\ worktrees = {}
    /\ fs \in {Prefixes(RepoDir),
               Prefixes(RepoDir \o <<BRANCH_PREFIX, "notes.txt">>)}
    /\ ProcessIdle
    /\ pre = State
    /\ runs = 0
    /\ agent_content = AGENT_CONTENT

\* A new process: argparse has parsed the command line.
Start ==
    /\ pc = "idle"
    /\ runs < MaxRuns
    /\ \E a \in ArgSets : args' = a
    /\ pc' = "validate"
    /\ orig_branch' = None
    /\ worktree_dir' = None
    /\ branch' = None
    /\ ret' = NoRet
    /\ exc' = "none"
    /\ log' = <<>>
    /\ steps' = NoSteps
    /\ warned' = FALSE
    /\ cleanup_fault' = NoRemovalFault
    /\ pre' = State
    /\ runs' = runs + 1
    /\ printed' = None
    /\ requested' = None
    /\ UNCHANGED <<refs, worktrees, fs, agent_content>>

\* Resolve repository directory.
ValidateDir ==
    /\ pc = "validate"
    /\ IF IsDir(args)
       THEN /\ pc' = "resolve"
            /\ steps' = [steps EXCEPT !.validate = "ok"]
            /\ ret' = ret
       ELSE /\ pc' = "done"
            /\ steps' = [steps EXCEPT !.validate = "fail"]
            /\ ret' = 1
    /\ UNCHANGED <<refs, worktrees, fs, args, orig_branch, worktree_dir,
                   branch, exc, log, warned, cleanup_fault, pre, runs,
                   agent_content, printed, requested>>

\* Determine the branch.
Resolve ==
    /\ pc = "resolve"
    /\ LET r == get_branch(State, args.branch)
       IN  IF r.raised
           THEN /\ pc' = "done"
                /\ ret' = 1
                /\ steps' = [steps EXCEPT !.resolve = "fail"]
                /\ orig_branch' = orig_branch
           ELSE /\ pc' = AfterResolve(args)
                /\ ret' = ret
                /\ steps' = [steps EXCEPT !.resolve = "ok"]
                /\ orig_branch' = r.value
    /\ log' = Append(log, "git rev-parse")
    /\ UNCHANGED <<refs, worktrees, fs, args, worktree_dir, branch, exc,
                   warned, cleanup_fault, pre, runs, agent_content, printed,
                   requested>>

\* Handle --purge-reviews.
Purge ==
    /\ pc = "purge"
    /\ LET r == purge_review_branches(State, RepoDir)
       IN  /\ refs' = r.st.refs
           /\ worktrees' = r.st.worktrees
           /\ fs' = r.st.fs
           /\ log' = log \o r.log
           /\ ret' = PurgeReturn(r.raised)
           /\ steps' = [steps EXCEPT !.purge = IF r.raised THEN "fail" ELSE "ok"]
    /\ pc' = "done"
    /\ UNCHANGED <<args, orig_branch, worktree_dir, branch, exc, warned,
                   cleanup_fault, pre, runs, agent_content, printed,
                   requested>>

\* A failed create that goes on to the review.
MutReviewAfterFailedCreate(raised) == "review"

\* The try block: run_claude_review follows create_review_branch only when
\* that returned; an exception leaves the block for the finally clause.
AfterCreate(raised) == IF raised THEN "finally" ELSE "review"

\* Create review branch and worktree.
Create ==
    /\ pc = "create"
    /\ \E rand \in Rands, date \in Dates, fault \in CreateFaults :
         LET r == create_review_branch(State, RepoDir, orig_branch, rand, date,
                                       fault)
         IN  /\ refs' = r.st.refs
             /\ worktrees' = r.st.worktrees
             /\ fs' = r.st.fs
             /\ requested' = r.worktree_dir
             /\ pc' = AfterCreate(r.raised)
             /\ IF ~r.raised
                THEN /\ worktree_dir' = r.worktree_dir
                     /\ branch' = r.branch
                     /\ steps' = [steps EXCEPT !.create = "ok"]
                     /\ UNCHANGED <<ret, exc>>
                ELSE /\ UNCHANGED <<worktree_dir, branch>>
                     /\ IF r.interrupted
                        THEN /\ exc' = "KeyboardInterrupt"
                             /\ ret' = ret
                             /\ steps' = [steps EXCEPT !.create = "interrupt"]
                        ELSE /\ exc' = exc
                             /\ ret' = TryReturn("error")
                             /\ steps' = [steps EXCEPT !.create = "fail"]
    /\ log' = Append(log, "git worktree add")
    /\ UNCHANGED <<args, orig_branch, warned, cleanup_fault, pre, runs,
                   agent_content, printed>>

\* Run Claude review.
Review ==
    /\ pc = "review"
    /\ \E agent \in AgentRuns :
         LET r == run_claude_review(agent_content, State, worktree_dir,
                                    branch, args.dry_run, agent)
         IN  /\ refs' = r.st.refs
             /\ worktrees' = r.st.worktrees
             /\ fs' = r.st.fs
             /\ log' = IF r.spawned THEN Append(log, "claude") ELSE log
             /\ printed' = r.printed
             /\ IF r.result = "interrupt"
                THEN /\ exc' = "KeyboardInterrupt"
                     /\ ret' = ret
                     /\ steps' = [steps EXCEPT !.review = "interrupt"]
                ELSE /\ exc' = exc
                     /\ ret' = TryReturn(r.result)
                     /\ steps' = [steps EXCEPT !.review =
                                     IF r.result = "ok" THEN "ok" ELSE "fail"]
    /\ pc' = "finally"
    /\ UNCHANGED <<args, orig_branch, worktree_dir, branch, warned,
                   cleanup_fault, pre, runs, agent_content, requested>>

\* The finally block.
Finally ==
    /\ pc = "finally"
    /\ IF CleanupDue(worktree_dir, branch)
       THEN \E fault \in CleanupFaults :
              LET r == cleanup_review_branch(State, RepoDir, worktree_dir,
                                             branch, fault)
              IN  /\ refs' = r.st.refs
                  /\ worktrees' = r.st.worktrees
                  /\ fs' = r.st.fs
                  /\ warned' = r.warned
                  /\ cleanup_fault' =
                         [git |-> fault.git, rmtree |-> fault.rmtree]
                  /\ exc' = IF r.raised THEN "Exception" ELSE exc
                  /\ ret' = IF r.raised THEN NoRet ELSE ret
                  /\ steps' = [steps EXCEPT !.cleanup =
                                  IF r.warned \/ r.raised THEN "fail" ELSE "ok"]
                  /\ log' = Append(log, "git worktree remove")
       ELSE UNCHANGED <<refs, worktrees, fs, warned, cleanup_fault, exc, ret,
                        steps, log>>
    /\ pc' = "done"
    /\ UNCHANGED <<args, orig_branch, worktree_dir, branch, pre, runs,
                   agent_content, printed, requested>>

\* The process exits: its variables are gone, the repository stays.
Exit ==
    /\ pc = "done"
    /\ pc' = "idle"
    /\ args' = [repo_is_dir |-> TRUE, branch |-> <<"HEAD">>,
                dry_run |-> FALSE, purge_reviews |-> FALSE]
    /\ orig_branch' = None
    /\ worktree_dir' = None
    /\ branch' = None
    /\ ret' = NoRet
    /\ exc' = "none"
    /\ log' = <<>>
    /\ steps' = NoSteps
    /\ warned' = FALSE
    /\ cleanup_fault' = NoRemovalFault
    /\ pre' = State
    /\ printed' = None
    /\ requested' = None
    /\ UNCHANGED <<refs, worktrees, fs, runs, agent_content>>

Next ==
    \/ Start
    \/ ValidateDir
    \/ Resolve
    \/ Purge
    \/ Create
    \/ Review
    \/ Finally
    \/ Exit

Spec == Init /\ [][Next]_vars

(***************************************************************************)
(* One invocation of a script whose agent template is any short text       *)
(***************************************************************************)
\* The lines a template is made of: the delimiter, the delimiter indented,
\* the delimiter with a fourth dash, a frontmatter entry, a blank line.
LineKinds ==
    {Dashes, <<" ", "-", "-", "-">>, <<"-", "-", "-", "-">>, <<"name: x">>,
     <<>>}

Templates == UNION {[1..n -> LineKinds] : n \in 1..MaxTemplateLines}

InitTemplate ==
    /\ refs = BaseRefs
    /\ worktrees = {}
    /\ fs = Prefixes(RepoDir)
    /\ ProcessIdle
    /\ pre = State
    /\ runs = 0
    /\ agent_content \in Templates

\* The first invocation on the repository.
FirstStart == runs = 0 /\ Start

NextOnce ==
    \/ FirstStart
    \/ ValidateDir
    \/ Resolve
    \/ Purge
    \/ Create
    \/ Review
    \/ Finally
    \/ Exit

SpecTemplate == InitTemplate /\ [][NextOnce]_vars

(***************************************************************************)
(* One invocation on a repository that earlier sessions left things in     *)
(***************************************************************************)
\* Every name a review branch of the model can have.
ReviewNames ==
    {RefnameOrder[k] : k \in 1..(Len(SortedOrigs) * Len(RandTable))}

\* What is left under a review name: nothing, the branch, the branch checked
\* out in its worktree, or a directory at the worktree path without a branch,
\* empty or holding a file.
LeftoverKinds == {"none", "branch", "worktree", "emptydir", "fulldir"}

LeftoverRefs(left) ==
    [b \in DOMAIN BaseRefs
           \cup {n \in ReviewNames : left[n] \in {"branch", "worktree"}} |->
        IF b \in DOMAIN BaseRefs THEN BaseRefs[b] ELSE BaseRefs[HeadBranch]]

LeftoverFiles(left) ==
    Prefixes(RepoDir)
    \cup UNION {Prefixes(RepoDir \o n) :
                   n \in {m \in ReviewNames : left[m] # "none"
                                              /\ left[m] # "branch"}}
    \cup {RepoDir \o n \o <<".git">> :
             n \in {m \in ReviewNames : left[m] = "worktree"}}
    \cup {RepoDir \o n \o <<"notes.txt">> :
             n \in {m \in ReviewNames : left[m] = "fulldir"}}

InitLeftovers ==
    /\ \E left \in [ReviewNames -> LeftoverKinds] :
           /\ refs = LeftoverRefs(left)
           /\ worktrees = {RepoDir \o n : n \in {m \in ReviewNames :
                                                    left[m] = "worktree"}}
           /\ fs = LeftoverFiles(left)
    /\ ProcessIdle
    /\ pre = State
    /\ runs = 0
    /\ agent_content = AGENT_CONTENT

SpecLeftovers == InitLeftovers /\ [][NextOnce]_vars

(***************************************************************************)
(* Properties                                                              *)
(***************************************************************************)
Done == pc = "done"

InLog(cmd) == \E i \in DOMAIN log : log[i] = cmd

CleanupRan == steps.cleanup # "none"

\* The removal of the worktree directory itself failed: run_command raised
\* (the later steps were skipped), or git exited non-zero and rmtree left
\* the directory.
RemovalFailed ==
    \/ cleanup_fault.git = "raise"
    \/ cleanup_fault.git = "nonzero" /\ cleanup_fault.rmtree = "left"

NewBranches == DOMAIN refs \ DOMAIN pre.refs

\* b reads <prefix>/<orig>-<date>-<8 hex digits>.
HasReviewName(b, orig) ==
    /\ Len(b) = Len(orig) + 1
    /\ b[1] = BRANCH_PREFIX
    /\ SubSeq(b, 2, Len(b) - 1) = Parent(orig)
    /\ \E d \in Dates, r \in Rands :
         b[Len(b)] = orig[Len(orig)] \o "-" \o d \o "-" \o r

\* No branch that existed before the invocation was deleted or moved.
OldBranchesKept ==
    \A b \in DOMAIN pre.refs : b \in DOMAIN refs /\ refs[b] = pre.refs[b]

\* C1 as stated: in a non-purge invocation in which the worktree was
\* created, cleanup runs however the review step ended, and at termination
\* the worktree directory no longer exists.
C1_Original ==
    (Done /\ steps.create = "ok") => (CleanupRan /\ worktree_dir \notin fs)

\* C1 amended: in a non-purge invocation in which the worktree was created,
\* cleanup runs however the review step ended (return, error, interrupt),
\* and at termination the worktree directory no longer exists unless the
\* removal itself failed.
C1_CleanupAlwaysRuns ==
    (Done /\ steps.create = "ok") =>
        /\ CleanupRan
        /\ InLog("git worktree remove")
        /\ (worktree_dir \in fs => RemovalFailed)

C1_Witness ==
    /\ Done
    /\ steps.create = "ok"
    /\ steps.review = "interrupt"
    /\ CleanupRan
    /\ worktree_dir \notin fs

\* C2: a dry-run invocation leaves the branches (names and tips) and the
\* registered worktrees as they were before it started, in every state.
C2_DryRunChangesNothing ==
    args.dry_run => (refs = pre.refs /\ worktrees = pre.worktrees)

\* C3 as stated: with an existing directory and a resolvable ref, a
\* non-purge invocation creates exactly one new branch, named
\* <prefix>/<branch>-<date>-<8-hex> and starting at the resolved tip, touches
\* no other branch, and on normal completion the worktree directory is gone.
C3_Original ==
    (Done /\ ~args.purge_reviews /\ steps.resolve = "ok") =>
        /\ Cardinality(NewBranches) = 1
        /\ \A b \in NewBranches : HasReviewName(b, orig_branch)
        /\ OldBranchesKept
        /\ (ExitStatus = 0 => worktree_dir \notin fs)

\* C3 amended: with an existing directory and a resolvable ref, a non-purge
\* invocation creates at most one new branch, and exactly one, the one it
\* reports, when the worktree creation succeeds; the new branch is named
\* <prefix>/<branch>-<date>-<8-hex> and starts at the resolved branch's tip;
\* no other branch is created, deleted or moved; on normal completion the
\* worktree directory no longer exists unless its removal failed.
C3_OneBranchWhenCreated ==
    (~args.purge_reviews /\ steps.resolve = "ok") =>
        /\ Cardinality(NewBranches) <= 1
        /\ \A b \in NewBranches : HasReviewName(b, orig_branch)
        /\ OldBranchesKept
        /\ steps.create = "ok" =>
             /\ NewBranches = {branch}
             /\ worktree_dir = RepoDir \o branch
             /\ pc = "review" => refs[branch] = pre.refs[orig_branch]
        /\ (Done /\ ExitStatus = 0 /\ ~RemovalFailed) => worktree_dir \notin fs

C3_Witness ==
    /\ Done
    /\ ~args.dry_run
    /\ ExitStatus = 0
    /\ orig_branch = <<"feat", "x">>
    /\ NewBranches = {branch}
    /\ worktree_dir \notin fs

\* C4: once cleanup has finished in an invocation whose creation succeeded,
\* the created review branch still exists, whatever the review's outcome.
C4_BranchSurvivesCleanup ==
    (Done /\ steps.create = "ok") => (CleanupRan /\ branch \in DOMAIN refs)

C4_Witness ==
    /\ Done
    /\ steps.create = "ok"
    /\ steps.review = "fail"
    /\ cleanup_fault = NoRemovalFault
    /\ worktree_dir \notin fs
    /\ worktree_dir \notin worktrees
    /\ branch \in DOMAIN refs

\* The branches the purge of this invocation found to delete.
MatchingBefore == {b \in DOMAIN pre.refs : MatchesPrefix(b)}

\* What purging once more, right now, would do.
PurgeAgain == purge_review_branches(State, RepoDir)

C6_PurgeSkipsReview ==
    args.purge_reviews =>
        /\ pc \notin {"create", "review", "finally"}
        /\ ~InLog("git worktree add")
        /\ ~InLog("claude")
        /\ ~InLog("git worktree remove")
        /\ steps.create = "none" /\ steps.review = "none" /\ ~CleanupRan
        /\ DOMAIN refs \subseteq DOMAIN pre.refs
        /\ worktrees = pre.worktrees
        /\ fs = pre.fs
        /\ Done =>
             /\ ExitStatus \in {0, 1}
             /\ ExitStatus = 1 <=>
                  "fail" \in {steps.validate, steps.resolve, steps.purge}

C6_Witness ==
    /\ Done
    /\ args.purge_reviews
    /\ steps.purge = "fail"
    /\ ExitStatus = 1

C8_CleanupKeepsResult ==
    [][pc = "finally" => (ret' = ret /\ exc' = exc)]_vars

C8_Witness ==
    /\ Done
    /\ CleanupRan
    /\ warned
    /\ ret = 0
    /\ worktree_dir \in fs

\* What a cleanup of the running session does from the repository st.
CleanupFrom(st, f) ==
    cleanup_review_branch(st, RepoDir, worktree_dir, branch, f)

\* The first cleanup left nothing for a second one to remove.
NothingLeft(st) ==
    /\ worktree_dir \notin st.fs
    /\ worktree_dir \notin st.worktrees
    /\ Parent(worktree_dir) \in st.fs => HasEntries(st.fs, Parent(worktree_dir))

\* C9 as stated: a second cleanup of the same session raises no error and
\* leaves disk, branches and worktrees exactly as the first cleanup left them.
C9_Original ==
    (pc = "finally" /\ CleanupDue(worktree_dir, branch)) =>
        \A f1 \in CleanupFaults :
            LET r1 == CleanupFrom(State, f1)
            IN  \A f2 \in CleanupFaults :
                    LET r2 == CleanupFrom(r1.st, f2)
                    IN  ~r2.raised /\ r2.st = r1.st

\* C9 amended: a second cleanup of the same session raises no error and
\* changes no branch; it leaves disk and worktrees exactly as the first
\* cleanup left them whenever the first one left neither the registration
\* of the worktree, nor its directory, nor an empty parent directory behind.
C9_SecondCleanupChangesNothing ==
    (pc = "finally" /\ CleanupDue(worktree_dir, branch)) =>
        \A f1 \in CleanupFaults :
            LET r1 == CleanupFrom(State, f1)
            IN  /\ ~r1.raised
                /\ \A f2 \in CleanupFaults :
                     LET r2 == CleanupFrom(r1.st, f2)
                     IN  /\ ~r2.raised
                         /\ r2.st.refs = r1.st.refs
                         /\ NothingLeft(r1.st) => r2.st = r1.st

C9_Witness ==
    /\ pc = "finally"
    /\ CleanupDue(worktree_dir, branch)
    /\ Len(branch) = 3
    /\ LET r1 == CleanupFrom(State, NoFault)
       IN  /\ r1.st # State
           /\ NothingLeft(r1.st)
           /\ CleanupFrom(r1.st, NoFault).st = r1.st

\* C10: when the repository path is no existing directory the invocation
\* exits with code 1 having run no command at all: no git operation, no
\* agent, and the repository and the disk are as they were.
C10_NoGitWithoutDirectory ==
    ~args.repo_is_dir =>
        /\ pc \in {"validate", "done"}
        /\ log = <<>>
        /\ State = pre
        /\ Done => (ExitStatus = 1 /\ steps.validate = "fail")

C10_Witness ==
    /\ Done
    /\ ~args.repo_is_dir
    /\ ExitStatus = 1
    /\ log = <<>>

(***************************************************************************)
(* The review step                                                         *)
(***************************************************************************)
\* The review step of the running invocation is over.
ReviewEnded == steps.review # "none"

\* C12: in a dry run the review step only prints the command it would run,
\* the new branch name literally in it, and returns; the agent process is
\* spawned in no dry-run invocation.
C12_DryRunOnlyPrints ==
    /\ args.dry_run => ~InLog("claude")
    /\ (args.dry_run /\ steps.create = "ok" /\ pc \in {"finally", "done"}) =>
           /\ steps.review = "ok"
           /\ printed = <<worktree_dir, PromptFor(branch)>>
           /\ printed[2][2] = branch
           /\ branch \in NewBranches
    /\ ~args.dry_run => printed = None

C12_Witness ==
    /\ Done /\ args.dry_run /\ ReviewEnded
    /\ printed # None
    /\ Len(branch) = 3

(***************************************************************************)
(* The order of the steps                                                  *)
(***************************************************************************)
\* The place of a command in the order resolve, create, review, cleanup.
StepRank(cmd) ==
    CASE cmd = "git rev-parse" -> 1
      [] cmd = "git worktree add" -> 2
      [] cmd = "claude" -> 3
      [] cmd = "git worktree remove" -> 4
      [] OTHER -> 0

\* C17: the steps of a non-purge invocation come in the order resolve,
\* create, review, cleanup and none is retried: the agent is spawned at most
\* once, only after ref resolution and worktree creation both succeeded, and
\* cleanup does not start before the review step has ended.
C17_StepOrder ==
    ~args.purge_reviews =>
        /\ \A i, j \in DOMAIN log :
               i < j => StepRank(log[i]) < StepRank(log[j])
        /\ \A i \in DOMAIN log : StepRank(log[i]) # 0
        /\ InLog("claude") => (steps.resolve = "ok" /\ steps.create = "ok")
        /\ pc = "review" => (steps.resolve = "ok" /\ steps.create = "ok")
        /\ InLog("git worktree add") => steps.resolve = "ok"
        /\ InLog("git worktree remove") => ReviewEnded

C17_Witness ==
    /\ Done
    /\ log = <<"git rev-parse", "git worktree add", "claude",
               "git worktree remove">>
    /\ steps.review = "fail"

(***************************************************************************)
(* Purge after ref resolution                                              *)
(***************************************************************************)
\* The ref given on the command line resolved when the invocation began.
RefResolves == GitRevParseAbbrevRef(pre, args.branch).ok

\* C18: ref resolution comes before the purge.  An invocation with
\* --purge-reviews whose branch argument does not resolve exits with code 1
\* having listed and deleted no branch, every review branch as it was.
C18_UnresolvedRefPurgesNothing ==
    (/\ args.purge_reviews /\ args.repo_is_dir /\ ~RefResolves
     /\ pc \notin {"validate", "resolve"}) =>
        /\ Done
        /\ ExitStatus = 1
        /\ log = <<"git rev-parse">>
        /\ State = pre

C18_Witness ==
    /\ Done /\ args.purge_reviews /\ ~RefResolves
    /\ ExitStatus = 1
    /\ MatchingBefore # {}
    /\ refs = pre.refs

(***************************************************************************)
(* A malformed agent template                                              *)
(***************************************************************************)
\* The lines of the template that are not blank, in order.
TextLines == SelectSeq(agent_content, LAMBDA l : \E i \in DOMAIN l : l[i] # " ")

\* The first line of text begins, after its indentation, with three dashes.
HasOpeningDelimiter ==
    /\ TextLines # <<>>
    /\ \E n \in 0..Len(TextLines[1]) :
           /\ \A i \in 1..n : TextLines[1][i] = " "
           /\ Len(TextLines[1]) >= n + 3
           /\ \A i \in (n + 1)..(n + 3) : TextLines[1][i] = "-"

\* A later line holds three dashes and, around them, blanks only.
HasClosingDelimiter ==
    \E k \in 2..Len(TextLines) :
        LET dashes == SelectSeq(TextLines[k], LAMBDA c : c # " ")
            first == CHOOSE i \in DOMAIN TextLines[k] : TextLines[k][i] = "-"
        IN  /\ dashes = <<"-", "-", "-">>
            /\ \A i \in first..(first + 2) : TextLines[k][i] = "-"

\* C11: with an agent template that lacks its opening or its closing
\* delimiter line the review fails before any agent process is spawned: no
\* state of such an invocation has the agent started.
C11_MalformedTemplateNeverSpawns ==
    (~HasOpeningDelimiter \/ ~HasClosingDelimiter) =>
        /\ ~InLog("claude")
        /\ ReviewEnded => steps.review = "fail"
        /\ (Done /\ ReviewEnded) => ExitStatus = 1

C11_Witness ==
    /\ Done /\ ReviewEnded /\ ~args.dry_run
    /\ HasOpeningDelimiter /\ ~HasClosingDelimiter
    /\ Len(agent_content) = MaxTemplateLines
    /\ steps.review = "fail"

(***************************************************************************)
(* The walk over the parent directories                                    *)
(***************************************************************************)
\* p is a proper ancestor of the worktree directory strictly below the
\* repository root.
AncestorBelowRoot(p) ==
    /\ p # worktree_dir /\ IsRelativeTo(worktree_dir, p)
    /\ p # RepoDir /\ IsRelativeTo(p, RepoDir)

\* What a cleanup may take from the disk: the worktree's own tree, and
\* ancestors below the root that have nothing left in them.
RemovesOnlyEmptyParents(before, after) ==
    /\ after \subseteq before
    /\ \A p \in before \ after :
           \/ IsRelativeTo(p, worktree_dir)
           \/ /\ AncestorBelowRoot(p)
              /\ ~HasEntries(after, p)
              /\ \A q \in before :
                     (q # p /\ IsRelativeTo(q, p)) =>
                         (IsRelativeTo(q, worktree_dir) \/ AncestorBelowRoot(q))

\* The walk stops at the first directory it keeps: above a kept ancestor
\* nothing is removed.
StopsAtFirstKept(before, after) ==
    \A p, q \in before :
        (/\ AncestorBelowRoot(p) /\ AncestorBelowRoot(q)
         /\ IsRelativeTo(p, q) /\ p \in after) => q \in after

\* C14: the walk of cleanup removes a directory only if it is a proper
\* ancestor of the worktree path strictly below the repository root and empty
\* when examined; it stops at the first non-empty directory and never removes
\* the repository root, a non-empty directory or anything outside the root,
\* also when the branch name has a '/' and several directories lie between.
C14_WalkRemovesOnlyEmptyParents ==
    [][(pc = "finally" /\ CleanupDue(worktree_dir, branch)) =>
           /\ RemovesOnlyEmptyParents(fs, fs')
           /\ StopsAtFirstKept(fs, fs')
           /\ Prefixes(RepoDir) \subseteq fs']_vars

C14_Witness ==
    /\ Done /\ CleanupRan
    /\ Len(branch) = 3
    /\ worktree_dir \notin pre.fs
    /\ worktree_dir \notin fs
    /\ Parent(worktree_dir) \notin fs
    /\ RepoDir \o <<BRANCH_PREFIX>> \in fs
    /\ RepoDir \o <<BRANCH_PREFIX, "notes.txt">> \in fs

(***************************************************************************)
(* Cleanup after a failed git worktree remove                              *)
(***************************************************************************)
\* The cleanup of this invocation ran and its git worktree remove exited
\* non-zero, the directory still on disk.
GitRemoveFailed == Done /\ CleanupRan /\ cleanup_fault.git = "nonzero"

\* C15 as stated: when git worktree remove returns non-zero and the
\* directory still exists, cleanup removes it recursively and walks the
\* parents, so the directory is gone afterwards.
C15_Original == GitRemoveFailed => worktree_dir \notin fs

\* C15 amended: a non-zero git worktree remove raises nothing and stops
\* nothing: rmtree is still called on the directory and the parents are still
\* walked.  The directory is gone afterwards unless rmtree, whose errors
\* are ignored, left it; then the disk is as it was.  With the directory
\* gone, a parent that became empty is gone too unless its rmdir failed.
C15_CleanupToleratesGitFailure ==
    /\ GitRemoveFailed =>
           /\ ~warned
           /\ cleanup_fault.rmtree = "none" => worktree_dir \notin fs
    /\ (pc = "finally" /\ CleanupDue(worktree_dir, branch)) =>
           \A f \in CleanupFaults :
               f.git = "nonzero" =>
                   LET r == CleanupFrom(State, f)
                       parent == Parent(worktree_dir)
                   IN  /\ ~r.raised /\ ~r.warned
                       /\ r.st.refs = refs /\ r.st.worktrees = worktrees
                       /\ f.rmtree = "left" => r.st.fs = fs
                       /\ f.rmtree = "none" =>
                              /\ \A p \in r.st.fs : ~IsRelativeTo(p, worktree_dir)
                              /\ f.rmdir = 0 =>
                                     \/ parent \notin r.st.fs
                                     \/ HasEntries(r.st.fs, parent)

C15_Witness ==
    /\ GitRemoveFailed /\ cleanup_fault.rmtree = "none"
    /\ worktree_dir \in worktrees
    /\ worktree_dir \notin fs
    /\ Parent(worktree_dir) \notin fs

(***************************************************************************)
(* A creation that fails half way                                          *)
(***************************************************************************)
\* create_review_branch raised after git had begun: a branch, a directory
\* or a registration of this invocation exists.
CreateFailedHalfWay == steps.create = "fail" /\ State # pre

\* C13: a creation step that fails after it began to create the worktree
\* still triggers cleanup, cleanup completes without error on the worktree
\* that does not fully exist, and no partly created worktree directory is
\* left when the invocation exits with code 1.
C13_FailedCreateIsCleanedUp ==
    (Done /\ CreateFailedHalfWay) =>
        /\ CleanupRan
        /\ ~warned
        /\ ExitStatus = 1 => (requested \in fs => requested \in pre.fs)

(***************************************************************************)
(* A worktree path that already exists                                     *)
(***************************************************************************)
\* git worktree add was asked for a path that was on disk when the
\* invocation began.
TargetExisted == requested # None /\ requested \in pre.fs

\* What lies at or under path p in a set of files.
TreeAt(files, p) == {q \in files : IsRelativeTo(q, p)}

\* C16: when the target worktree path already exists at creation the
\* invocation fails loudly instead of overwriting: exit code 1, no agent
\* spawned, the directory that was there and its contents left unchanged,
\* neither overwritten by creation nor removed by cleanup.
C16_ExistingPathFailsLoudly ==
    TargetExisted =>
        /\ ~InLog("claude")
        /\ pc # "review"
        /\ TreeAt(fs, requested) = TreeAt(pre.fs, requested)
        /\ Done => ExitStatus = 1

(***************************************************************************)
(* A purge that fails                                                      *)
(***************************************************************************)
\* The branches the purge was given, in the order git lists them.
Listed == GitBranchList(pre)

\* git refuses to delete a branch that is checked out in a worktree.
CheckedOut(b) == RepoDir \o b \in pre.worktrees

\* C19: the purge aborts at the first git branch -D that fails: the branches
\* deleted before it stay deleted, every matching branch listed from the
\* failing one on is left, no non-matching branch is touched, exit code 1.
C19_PurgeAbortsAtFirstFailure ==
    (Done /\ steps.purge = "fail") =>
        /\ ExitStatus = 1
        /\ \E k \in DOMAIN Listed :
               /\ CheckedOut(Listed[k])
               /\ \A i \in 1..(k - 1) :
                      ~CheckedOut(Listed[i]) /\ Listed[i] \notin DOMAIN refs
               /\ \A i \in k..Len(Listed) :
                      /\ Listed[i] \in DOMAIN refs
                      /\ refs[Listed[i]] = pre.refs[Listed[i]]
               /\ log = <<"git rev-parse", "git branch --list">>
                            \o [i \in 1..k |-> "git branch -D"]
        /\ \A b \in DOMAIN pre.refs :
               ~MatchesPrefix(b) => (b \in DOMAIN refs /\ refs[b] = pre.refs[b])
        /\ DOMAIN refs \subseteq DOMAIN pre.refs
        /\ worktrees = pre.worktrees /\ fs = pre.fs

C19_Witness ==
    /\ Done /\ steps.purge = "fail"
    /\ Len(Listed) >= 3
    /\ ~CheckedOut(Listed[1]) /\ CheckedOut(Listed[2])
    /\ Listed[1] \notin DOMAIN refs
    /\ Listed[3] \in DOMAIN refs /\ ~CheckedOut(Listed[3])

====
